---- MODULE Spec2Model ----
(***************************************************************************)
(* Model of the Xider driver for Python (src/xider/__init__.py):           *)
(*   - Mfuncs.__getattr__ : routine invocation through a call-in table     *)
(*   - Driver.__init__/init/terminate/__exit__ : session lifecycle         *)
(*   - Driver.command : argument-to-subscript mapping with backtracking    *)
(*     over callable template entries, and interpretation of the status    *)
(*     code returned by the per-command routine.                           *)
(* The local variable 'xider' of the YottaDB process (ydb.set / ydb.get)   *)
(* and the active call-in table (ydb.switch_ci_table) are process-wide.    *)
(* Driver.command is split at its external calls (one step per ydb.set,    *)
(* one for M.call, one for the classification of the status code), which   *)
(* is the granularity at which two Python threads can interleave.          *)
(***************************************************************************)
EXTENDS Integers, Sequences, FiniteSets, TLC

\* ------------------------------------------------------------------ bounds
MaxArgs == 6      \* longest argument list passed to Driver.command
MaxCalls == 1     \* command() calls one driver makes inside its with-block

\* ------------------------------------------------------------ text helpers
Digits == <<"0", "1", "2", "3", "4", "5", "6", "7", "8", "9">>

LowerLetters == <<"a", "b", "c", "d", "e", "f", "g", "h", "i", "j", "k", "l", "m",
                  "n", "o", "p", "q", "r", "s", "t", "u", "v", "w", "x", "y", "z">>

UpperLetters == <<"A", "B", "C", "D", "E", "F", "G", "H", "I", "J", "K", "L", "M",
                  "N", "O", "P", "Q", "R", "S", "T", "U", "V", "W", "X", "Y", "Z">>

\* Python str(n) of an integer: decimal digits, '-' for a negative number.
RECURSIVE str(_)
str(n) ==
    IF n < 0 THEN "-" \o str(0 - n)
    ELSE IF n < 10 THEN Digits[n + 1]
    ELSE str(n \div 10) \o Digits[(n % 10) + 1]

\* Python int(text, 10) of a text given as its sequence of characters.
RECURSIVE int_digits(_, _)
int_digits(chars, acc) ==
    IF chars = <<>> THEN acc
    ELSE int_digits(Tail(chars),
                    10 * acc + ((CHOOSE k \in 1..10 : Digits[k] = Head(chars)) - 1))

int(chars) ==
    IF Head(chars) = "-" THEN 0 - int_digits(Tail(chars), 0)
    ELSE int_digits(chars, 0)

\* The text whose characters are chars.
RECURSIVE text(_)
text(chars) == IF chars = <<>> THEN "" ELSE Head(chars) \o text(Tail(chars))

\* '.'.join(map(str, numbers))
RECURSIVE join_dot(_)
join_dot(numbers) ==
    IF Len(numbers) = 1 THEN str(Head(numbers))
    ELSE str(Head(numbers)) \o "." \o join_dot(Tail(numbers))

upper_char(c) ==
    IF \E k \in 1..Len(LowerLetters) : LowerLetters[k] = c
    THEN UpperLetters[CHOOSE k \in 1..Len(LowerLetters) : LowerLetters[k] = c]
    ELSE c

upper_identity(chars) == text(chars)

\* cmd.upper()
upper(chars) == text([k \in 1..Len(chars) |-> upper_char(chars[k])])

\* ---------------------------------------------------------- Python values
None == [py |-> "None", v |-> ""]
PyBytes(s) == [py |-> "bytes", v |-> s]
PyStr(s) == [py |-> "str", v |-> s]
PyInt(n) == [py |-> "int", v |-> str(n)]

\* bytes.decode(encoding): the same characters as a str.
decode(b) == PyStr(b.v)

\* ------------------------------------------------------ template registry
\* A template entry is a subscript name or a callable taking the 1-based
\* position of the argument.
Name(s) == [callable |-> FALSE, id |-> s]
Lambda(s) == [callable |-> TRUE, id |-> s]

callable(entry) == entry.callable

SET_lambda(i) == <<"params" \o str(i - 2)>>

DEL_lambda(i) == <<"keys", str(i)>>

HSET_field_nodiv(i) == <<"data", str(i), "field">>

HSET_field_lambda(i) == <<"data", str(i \div 2), "field">>

HSET_value_as_field(i) == <<"data", str(i \div 2), "field">>

HSET_value_lambda(i) == <<"data", str(i \div 2), "value">>

HDEL_lambda(i) == <<"fields", str(i - 1)>>

WATCH_lambda(i) == <<"keys", str(i)>>

\* Call of the callable template entry with position i.
call_lambda(entry, i) ==
    CASE entry.id = "SET" -> SET_lambda(i)
      [] entry.id = "DEL" -> DEL_lambda(i)
      [] entry.id = "HSET.field" -> HSET_field_lambda(i)
      [] entry.id = "HSET.value" -> HSET_value_lambda(i)
      [] entry.id = "HDEL" -> HDEL_lambda(i)
      [] entry.id = "WATCH" -> WATCH_lambda(i)

arg_names_default == <<Name("key"), Name("value")>>

arg_names ==
    [SET     |-> <<Name("key"), Name("value"), Lambda("SET")>>,
     DEL     |-> <<Lambda("DEL")>>,
     HSET    |-> <<Name("key"), Lambda("HSET.field"), Lambda("HSET.value")>>,
     HGET    |-> <<Name("key"), Name("field")>>,
     HDEL    |-> <<Name("key"), Lambda("HDEL")>>,
     HINCRBY |-> <<Name("key"), Name("field"), Name("increment")>>,
     INCRBY  |-> <<Name("key"), Name("increment")>>,
     WATCH   |-> <<Lambda("WATCH")>>]

\* self.arg_names.get(cmd, self.arg_names_default)
arg_names_get(cmd) ==
    IF cmd \in DOMAIN arg_names THEN arg_names[cmd] ELSE arg_names_default

\* ------------------------------------------------------- tuple indexing
\* Python t[k] for a tuple t: the 1-based position selected by index k, a
\* negative index counting from the end, 0 when t[k] raises IndexError.
tuple_index_wrap(t, k) ==
    IF k >= Len(t) THEN (k % Len(t)) + 1
    ELSE IF k >= 0 THEN k + 1
    ELSE IF k >= 0 - Len(t) THEN Len(t) + k + 1
    ELSE 0

tuple_index(t, k) ==
    IF 0 <= k /\ k < Len(t) THEN k + 1
    ELSE IF 0 - Len(t) <= k /\ k < 0 THEN Len(t) + k + 1
    ELSE 0

IndexError == 0 - 1

\* while callable(arg_names[i-1-backtrack]): backtrack += 1
\* The value of backtrack when the loop ends, IndexError when a subscription
\* of arg_names raises.
RECURSIVE while_callable(_, _, _)
while_callable(t, i, backtrack) ==
    IF tuple_index(t, i - 1 - backtrack) = 0 THEN IndexError
    ELSE IF callable(t[tuple_index(t, i - 1 - backtrack)])
         THEN while_callable(t, i, backtrack + 1)
         ELSE backtrack

\* The value of backtrack used for the argument at index i.
next_backtrack(t, i, backtrack) ==
    IF i - backtrack >= Len(t) THEN while_callable(t, i, backtrack) ELSE backtrack

\* The subscripts the argument at index i is stored at.
subscripts_of(t, i, backtrack) ==
    IF callable(t[tuple_index(t, i - backtrack)])
    THEN call_lambda(t[tuple_index(t, i - backtrack)], i + 1)
    ELSE <<t[tuple_index(t, i - backtrack)].id>>

\* ------------------------------------------------------ response decoding
count_commands_short == {"DEL", "HSET"}

count_commands == {"DEL", "HSET", "HDEL"}

OK(decode_responses) == IF decode_responses THEN decode(PyBytes("OK")) ELSE PyBytes("OK")

\* ------------------------------------------------------------- the store
\* ydb.set('xider', subscripts, value) on the store s.
ydb_set_if_absent(s, subscripts, value) ==
    IF subscripts \in DOMAIN s THEN s
    ELSE [p \in DOMAIN s \cup {subscripts} |-> IF p = subscripts THEN value ELSE s[p]]

ydb_set(s, subscripts, value) ==
    [p \in DOMAIN s \cup {subscripts} |-> IF p = subscripts THEN value ELSE s[p]]

\* ydb.get('xider', subscripts)
ydb_get(s, subscripts) == IF subscripts \in DOMAIN s THEN PyBytes(s[subscripts]) ELSE None

\* ------------------------------------------------------- call-in tables
NoTable == "None"
xider_ci == "xider.ci"
other_ci == "other.ci"

\* Mfuncs.__getattr__ of the instance that opened ci_handle: the table left
\* active when the attribute access returns, under which the caller runs.
getattr_active(ci_handle, active) == IF active # NoTable THEN active ELSE ci_handle

\* ------------------------------------------------------------- the state
VARIABLES
    store,             \* the local variable 'xider': subscripts -> value
    ci_active,         \* the call-in table active in the process
    pc,                \* per driver: new, ready, map, decode, raised, exited
    decode_responses,  \* per driver: self.decode_responses is truthy
    raw,               \* per driver: cmd as passed to command()
    cmd,               \* per driver: cmd after cmd.upper()
    names,             \* per driver: the local arg_names of command()
    args,              \* per driver: *args of command()
    i,                 \* per driver: index of the argument being mapped
    backtrack,         \* per driver: the local backtrack of command()
    ret,               \* per driver: status code of the last M.call
    result,            \* per driver: value returned by the last command()
    events,            \* per driver: ydb.set and ydb.cip calls of the current command()
    seen,              \* per driver: what the routine finds at the subscripts the call wrote
    reads,             \* per driver: ydb.get calls of the last command()
    error,             \* per driver: exception raised inside the with-block
    invoked,           \* per driver: routines invoked through M, with the table active
    ncalls,            \* per driver: command() calls begun
    overlapped         \* per driver: a step of another driver's command() fell inside this one

vars == <<store, ci_active, pc, decode_responses, raw, cmd, names, args, i, backtrack,
          ret, result, events, seen, reads, error, invoked, ncalls, overlapped>>

locals == <<raw, cmd, names, args, i, backtrack>>

\* The Driver instances of the process.
AllDrivers == {"x", "y"}

Drivers == DOMAIN pc

mid_call(d) == pc[d] \in {"map", "decode"}

\* overlapped after a step of command() of driver d; fresh when the step begins the call.
overlap_after(d, fresh) ==
    [e \in Drivers |->
        IF e = d
        THEN (~fresh /\ overlapped[d]) \/ (\E f \in Drivers \ {d} : mid_call(f))
        ELSE overlapped[e] \/ mid_call(e)]

set_event(subscripts, value) == [op |-> "set", subscripts |-> subscripts, value |-> value]
cip_event(routine) == [op |-> "cip", subscripts |-> <<>>, value |-> routine]

sets_of(evs) == SelectSeq(evs, LAMBDA e : e.op = "set")
cips_of(evs) == SelectSeq(evs, LAMBDA e : e.op = "cip")

InitFor(D) ==
    /\ store = <<>>
    /\ ci_active = NoTable
    /\ pc = [d \in D |-> "new"]
    /\ decode_responses = [d \in D |-> TRUE]
    /\ raw = [d \in D |-> <<>>]
    /\ cmd = [d \in D |-> ""]
    /\ names = [d \in D |-> <<>>]
    /\ args = [d \in D |-> <<>>]
    /\ i = [d \in D |-> 0]
    /\ backtrack = [d \in D |-> 0]
    /\ ret = [d \in D |-> 0]
    /\ result = [d \in D |-> None]
    /\ events = [d \in D |-> <<>>]
    /\ seen = [d \in D |-> <<>>]
    /\ reads = [d \in D |-> 0]
    /\ error = [d \in D |-> ""]
    /\ invoked = [d \in D |-> <<>>]
    /\ ncalls = [d \in D |-> 0]
    /\ overlapped = [d \in D |-> FALSE]

Init == InitFor({"x"})

\* --------------------------------------------------------------- inputs
Values == <<"a", "b", "c">>

\* An argument list of n values, starting after Values[first]: consecutive calls of
\* a driver pass different values at the same position.
arg_list(n, first) == [j \in 1..n |-> Values[((j + first) % Len(Values)) + 1]]


\* The arguments of a driver that passes its own values.
own_args(d, n) == [j \in 1..n |-> d \o str(j)]

CmdNames ==
    {<<"S", "E", "T">>, <<"s", "e", "t">>,
     <<"D", "E", "L">>, <<"d", "E", "l">>,
     <<"H", "S", "E", "T">>, <<"h", "s", "e", "t">>,
     <<"H", "G", "E", "T">>,
     <<"H", "D", "E", "L">>, <<"H", "d", "e", "l">>,
     <<"H", "I", "N", "C", "R", "B", "Y">>,
     <<"I", "N", "C", "R", "B", "Y">>, <<"i", "n", "c", "r", "b", "y">>,
     <<"W", "A", "T", "C", "H">>,
     <<"G", "E", "T">>, <<"g", "e", "t">>}

\* Status codes as the per-command routine returns them (text).
Replies == {<<"-", "3">>, <<"0">>, <<"1">>, <<"2">>, <<"1", "0">>}

Payloads == {"5"}

\* ------------------------------------------------------------ lifecycle
\* The four ydb.set calls of Driver.init().
init_params(s) ==
    ydb_set(ydb_set(ydb_set(ydb_set(s,
        <<"driverName">>, "Python"),
        <<"driverVersion">>, join_dot(<<0, 0, 1>>)),
        <<"description">>,
        "Redis-compatible Python driver for fast in-process API for Xider database"),
        <<"noParamsValidation">>, "0")

\* What routine init leaves under ('ret', ...) for Driver.init() to read back.
init_reply(s) ==
    ydb_set(ydb_set(s, <<"ret", "keyFieldMaxLength">>, "255"), <<"ret", "version">>, "1.0.0")

invocation(routine, table) == [routine |-> routine, table |-> table]

\* Driver.__init__, which runs Driver.init(); the with-block is entered.
Construct(d, dr) ==
    /\ d \in Drivers
    /\ pc[d] = "new"
    /\ decode_responses' = [decode_responses EXCEPT ![d] = dr]
    /\ store' = init_reply(init_params(store))
    /\ ci_active' = getattr_active(xider_ci, ci_active)
    /\ invoked' = [invoked EXCEPT ![d] = Append(@, invocation("init", ci_active'))]
    /\ pc' = [pc EXCEPT ![d] = "ready"]
    /\ UNCHANGED <<locals, ret, result, events, seen, reads, error, ncalls, overlapped>>

exit_skips_on_error(err) == IF err = "" THEN <<"terminate">> ELSE <<>>

\* Driver.__exit__(exc_type, exc_val, exc_tb): the routines it invokes.
exit_routines(err) == <<"terminate">>

\* The with-block is left, normally or by an exception: Driver.__exit__.
Exit(d) ==
    /\ d \in Drivers
    /\ pc[d] \in {"ready", "raised"}
    /\ ci_active' = IF exit_routines(error[d]) = <<>> THEN ci_active
                    ELSE getattr_active(xider_ci, ci_active)
    /\ invoked' = [invoked EXCEPT ![d] =
            @ \o [k \in 1..Len(exit_routines(error[d])) |->
                    invocation(exit_routines(error[d])[k], ci_active')]]
    /\ pc' = [pc EXCEPT ![d] = "exited"]
    /\ UNCHANGED <<store, decode_responses, locals, ret, result, events, seen, reads,
                   error, ncalls, overlapped>>

\* An attribute access on a second Mfuncs instance, opened from another call-in file.
OtherGetattr ==
    /\ ci_active' = getattr_active(other_ci, ci_active)
    /\ UNCHANGED <<store, pc, decode_responses, locals, ret, result, events, seen, reads,
                   error, invoked, ncalls, overlapped>>

\* ------------------------------------------------------ Driver.command
\* command(cmd, *args) up to the loop over the arguments.
Begin(d, name, a) ==
    /\ d \in Drivers
    /\ pc[d] = "ready"
    /\ ncalls[d] < MaxCalls
    /\ ncalls' = [ncalls EXCEPT ![d] = @ + 1]
    /\ raw' = [raw EXCEPT ![d] = name]
    /\ cmd' = [cmd EXCEPT ![d] = upper(name)]
    /\ names' = [names EXCEPT ![d] = arg_names_get(upper(name))]
    /\ args' = [args EXCEPT ![d] = a]
    /\ i' = [i EXCEPT ![d] = 0]
    /\ backtrack' = [backtrack EXCEPT ![d] = 0]
    /\ events' = [events EXCEPT ![d] = <<>>]
    /\ seen' = [seen EXCEPT ![d] = <<>>]
    /\ reads' = [reads EXCEPT ![d] = 0]
    /\ result' = [result EXCEPT ![d] = None]
    /\ overlapped' = overlap_after(d, TRUE)
    /\ pc' = [pc EXCEPT ![d] = "map"]
    /\ UNCHANGED <<store, ci_active, decode_responses, ret, error, invoked>>

\* One iteration of the loop over the arguments: the subscripts of args[i]
\* and its ydb.set, or the IndexError of a subscription of arg_names.
MapArg(d) ==
    /\ d \in Drivers
    /\ pc[d] = "map"
    /\ i[d] < Len(args[d])
    /\ LET t == names[d]
           bt == next_backtrack(t, i[d], backtrack[d])
       IN  IF bt = IndexError \/ tuple_index(t, i[d] - bt) = 0
           THEN /\ error' = [error EXCEPT ![d] = "IndexError"]
                /\ pc' = [pc EXCEPT ![d] = "raised"]
                /\ UNCHANGED <<store, i, backtrack, events>>
           ELSE /\ backtrack' = [backtrack EXCEPT ![d] = bt]
                /\ store' = ydb_set(store, subscripts_of(t, i[d], bt), args[d][i[d] + 1])
                /\ events' = [events EXCEPT ![d] =
                        Append(@, set_event(subscripts_of(t, i[d], bt), args[d][i[d] + 1]))]
                /\ i' = [i EXCEPT ![d] = @ + 1]
                /\ UNCHANGED <<pc, error>>
    /\ overlapped' = overlap_after(d, FALSE)
    /\ UNCHANGED <<ci_active, decode_responses, raw, cmd, names, args, ret, result, seen,
                   reads, invoked, ncalls>>

\* ret = int(M.call(cmd, has_retval=True), 10): the routine runs, finds the
\* arguments in the store, returns reply and, with status 1, leaves payload
\* at ('ret',).
Invoke(d, reply, payload) ==
    /\ d \in Drivers
    /\ pc[d] = "map"
    /\ i[d] = Len(args[d])
    /\ ci_active' = getattr_active(xider_ci, ci_active)
    /\ invoked' = [invoked EXCEPT ![d] = Append(@, invocation("call", ci_active'))]
    /\ events' = [events EXCEPT ![d] = Append(@, cip_event("call"))]
    /\ seen' = [seen EXCEPT ![d] =
            [k \in 1..Len(sets_of(events[d])) |-> store[sets_of(events[d])[k].subscripts]]]
    /\ ret' = [ret EXCEPT ![d] = int(reply)]
    /\ store' = IF int(reply) = 1 THEN ydb_set(store, <<"ret">>, payload) ELSE store
    /\ overlapped' = overlap_after(d, FALSE)
    /\ pc' = [pc EXCEPT ![d] = "decode"]
    /\ UNCHANGED <<decode_responses, locals, result, reads, error, ncalls>>

\* Whether command() returns the status code itself.
returns_count(c, r) == r >= 0 /\ c \in count_commands

\* Whether command() fetches ('ret',).
fetches_ret(c, r) == ~returns_count(c, r) /\ r # 0 /\ r = 1

\* retval of the branch ret == 1.
retval(dr, s) ==
    IF dr /\ ydb_get(s, <<"ret">>).py = "bytes"
    THEN decode(ydb_get(s, <<"ret">>))
    ELSE ydb_get(s, <<"ret">>)

\* The value command() returns for status code r.
command_result(c, r, dr, s) ==
    IF returns_count(c, r) THEN PyInt(r)
    ELSE IF r = 0 THEN OK(dr)
    ELSE IF r = 1 THEN retval(dr, s)
    ELSE PyStr("Error " \o str(r) \o ": Not implemented")

\* The classification of ret and the return of command().
Return(d) ==
    /\ d \in Drivers
    /\ pc[d] = "decode"
    /\ result' = [result EXCEPT ![d] =
            command_result(cmd[d], ret[d], decode_responses[d], store)]
    /\ reads' = [reads EXCEPT ![d] = IF fetches_ret(cmd[d], ret[d]) THEN @ + 1 ELSE @]
    /\ overlapped' = overlap_after(d, FALSE)
    /\ pc' = [pc EXCEPT ![d] = "ready"]
    /\ UNCHANGED <<store, ci_active, decode_responses, locals, ret, events, seen, error,
                   invoked, ncalls>>

\* ------------------------------------------------------- specifications
\* One driver used as a context manager.
Next ==
    \/ \E d \in AllDrivers, dr \in BOOLEAN : Construct(d, dr)
    \/ \E d \in AllDrivers, name \in CmdNames, n \in 0..MaxArgs :
            Begin(d, name, arg_list(n, ncalls[d]))
    \/ \E d \in AllDrivers : MapArg(d)
    \/ \E d \in AllDrivers, reply \in Replies, payload \in Payloads : Invoke(d, reply, payload)
    \/ \E d \in AllDrivers : Return(d)
    \/ \E d \in AllDrivers : Exit(d)

Spec == Init /\ [][Next]_vars

\* One driver, and a second Mfuncs instance in the same process.
NextCi ==
    \/ Next
    \/ OtherGetattr

SpecCi == Init /\ [][NextCi]_vars

\* Two drivers of one process, each making one command() call in a thread of
\* its own and passing its own values.
ConcNames == {<<"g", "e", "t">>, <<"H", "D", "E", "L">>, <<"h", "s", "e", "t">>}

InitConc == InitFor(AllDrivers)

NextConc ==
    \/ \E d \in AllDrivers : Construct(d, TRUE)
    \/ \E d \in AllDrivers, name \in ConcNames, n \in 0..MaxArgs :
            ncalls[d] = 0 /\ Begin(d, name, own_args(d, n))
    \/ \E d \in AllDrivers : MapArg(d)
    \/ \E d \in AllDrivers : Invoke(d, <<"0">>, "5")
    \/ \E d \in AllDrivers : Return(d)
    \/ \E d \in AllDrivers : Exit(d)

SpecConc == InitConc /\ [][NextConc]_vars

\* ------------------------------------------------------------ properties
\* The decimal numeral of a position (positions stay below ten).
Numeral(j) == <<"1", "2", "3", "4", "5", "6", "7", "8", "9">>[j]

\* The loop over the arguments of d's current call has ended.
loop_ended(d) == ncalls[d] > 0 /\ (pc[d] # "map" \/ i[d] = Len(args[d]))

\* d's current call has left the mapping loop: M.call was reached or it raised.
call_over(d) == ncalls[d] > 0 /\ pc[d] # "map"

\* d's last call returned a value.
returned(d) == ncalls[d] > 0 /\ pc[d] \in {"ready", "exited"} /\ error[d] = ""

writes(d) == sets_of(events[d])

\* C1: a DEL call with n >= 1 keys writes the j-th key to ("keys", str(j)) for
\* every j in 1..n, in argument order: the backward walk stops at the template
\* start and the single callable entry is replayed for every excess key.
C1_DelWritesEveryKey ==
    \A d \in Drivers :
        (cmd[d] = "DEL" /\ Len(args[d]) >= 1 /\ loop_ended(d)) =>
            /\ error[d] = ""
            /\ writes(d) = [j \in 1..Len(args[d]) |->
                                set_event(<<"keys", Numeral(j)>>, args[d][j])]

hset_subscripts(k) ==
    IF k = 1 THEN <<"key">>
    ELSE IF k % 2 = 0 THEN <<"data", Numeral(k \div 2), "field">>
    ELSE <<"data", Numeral((k - 1) \div 2), "value">>

hdel_subscripts(k) == IF k = 1 THEN <<"key">> ELSE <<"fields", Numeral(k - 1)>>

\* C2: with a static prefix and a trailing group of callable entries, the
\* arguments beyond the template replay the group as a whole and in order:
\* HSET key f1 v1 .. fn vn writes key to ("key",), fj to ("data", str(j),
\* "field") and vj to ("data", str(j), "value"); HDEL key f1 .. fn writes key
\* to ("key",) and fj to ("fields", str(j)).
C2_TrailingGroupReplayed ==
    \A d \in Drivers :
        /\ (cmd[d] = "HSET" /\ loop_ended(d)) =>
              /\ error[d] = ""
              /\ writes(d) = [k \in 1..Len(args[d]) |->
                                  set_event(hset_subscripts(k), args[d][k])]
        /\ (cmd[d] = "HDEL" /\ loop_ended(d)) =>
              /\ error[d] = ""
              /\ writes(d) = [k \in 1..Len(args[d]) |->
                                  set_event(hdel_subscripts(k), args[d][k])]

\* An HSET call with two full field/value pairs has reached M.call.
C2_Witness ==
    \E d \in Drivers :
        /\ cmd[d] = "HSET" /\ pc[d] = "decode" /\ Len(args[d]) >= 5
        /\ writes(d)[4].subscripts = <<"data", "2", "field">>
        /\ writes(d)[5].subscripts = <<"data", "2", "value">>

\* C3: command() returns, by priority: the status code as an integer when it
\* is >= 0 and the command is DEL, HSET or HDEL; else OK when it is 0; else
\* the payload read from ("ret",) when it is 1; else the text 'Error <ret>:
\* Not implemented'. The store is read once in the payload case only.
C3_ResultByPriority ==
    \A d \in Drivers :
        returned(d) =>
            IF ret[d] >= 0 /\ cmd[d] \in {"DEL", "HSET", "HDEL"}
            THEN result[d] = [py |-> "int", v |-> str(ret[d])] /\ reads[d] = 0
            ELSE IF ret[d] = 0
            THEN /\ result[d] = [py |-> IF decode_responses[d] THEN "str" ELSE "bytes",
                                 v |-> "OK"]
                 /\ reads[d] = 0
            ELSE IF ret[d] = 1
            THEN /\ result[d] = [py |-> IF decode_responses[d] THEN "str" ELSE "bytes",
                                 v |-> store[<<"ret">>]]
                 /\ reads[d] = 1
            ELSE /\ result[d] = [py |-> "str",
                                 v |-> "Error " \o str(ret[d]) \o ": Not implemented"]
                 /\ reads[d] = 0

\* A command outside DEL, HSET, HDEL returned the payload it fetched.
C3_Witness ==
    \E d \in Drivers :
        /\ returned(d) /\ cmd[d] = "GET" /\ ret[d] = 1
        /\ reads[d] = 1 /\ result[d].v = "5"

\* The template of d's call ends in an entry that is not callable and the call
\* passes more arguments than the template has entries.
excess_call(d) ==
    /\ ncalls[d] > 0
    /\ ~callable(names[d][Len(names[d])])
    /\ Len(args[d]) > Len(names[d])

\* C4: a call with more arguments than a template without trailing callable
\* entry has entries raises IndexError at the first excess argument: no excess
\* argument is written and M.call is not reached.
C4_ExcessArgumentsRaise ==
    \A d \in Drivers :
        excess_call(d) =>
            /\ pc[d] \in {"map", "raised", "exited"}
            /\ cips_of(events[d]) = <<>>
            /\ Len(writes(d)) <= Len(names[d])
            /\ \A k \in 1..Len(writes(d)) :
                   writes(d)[k] = set_event(<<names[d][k].id>>, args[d][k])
            /\ (pc[d] = "map") => (error[d] = "" /\ i[d] <= Len(names[d]))
            /\ (pc[d] # "map") =>
                   /\ error[d] = "IndexError"
                   /\ i[d] = Len(names[d])
                   /\ Len(writes(d)) = Len(names[d])

\* HINCRBY with two arguments too many has raised.
C4_Witness ==
    \E d \in Drivers :
        /\ excess_call(d) /\ cmd[d] = "HINCRBY" /\ Len(args[d]) = 5
        /\ pc[d] = "raised"

\* The template of d's call can absorb its arguments: it has an entry for each,
\* or it ends in a callable entry.
absorbable(d) ==
    \/ Len(args[d]) <= Len(names[d])
    \/ callable(names[d][Len(names[d])])

\* C5: in a call with n arguments that its template can absorb, exactly n
\* ydb.set calls happen, the j-th with the j-th argument, and the routine is
\* invoked exactly once, after all of them.
C5_WritesThenOneCall ==
    \A d \in Drivers :
        (ncalls[d] > 0 /\ absorbable(d)) =>
            /\ (pc[d] = "map") =>
                   /\ Len(events[d]) = i[d]
                   /\ \A k \in 1..Len(events[d]) :
                          events[d][k].op = "set" /\ events[d][k].value = args[d][k]
            /\ call_over(d) =>
                   /\ Len(events[d]) = Len(args[d]) + 1
                   /\ \A k \in 1..Len(args[d]) :
                          events[d][k].op = "set" /\ events[d][k].value = args[d][k]
                   /\ events[d][Len(args[d]) + 1].op = "cip"

Registered ==
    {<<"S", "E", "T">>, <<"D", "E", "L">>, <<"H", "S", "E", "T">>, <<"H", "G", "E", "T">>,
     <<"H", "D", "E", "L">>, <<"H", "I", "N", "C", "R", "B", "Y">>,
     <<"I", "N", "C", "R", "B", "Y">>, <<"W", "A", "T", "C", "H">>}

\* a and b spell the same name up to letter case.
same_letters(a, b) ==
    /\ Len(a) = Len(b)
    /\ \A k \in 1..Len(a) :
           \/ a[k] = b[k]
           \/ \E j \in 1..Len(LowerLetters) :
                  {a[k], b[k]} = {LowerLetters[j], UpperLetters[j]}

\* C6: any letter-case spelling of a registered name selects that name's
\* template and every other name selects the default template, for which a
\* call (k, v) writes k to ("key",), then v to ("value",).
C6_LookupNeverFails ==
    \A d \in Drivers :
        ncalls[d] > 0 =>
            /\ \A r \in Registered :
                   same_letters(raw[d], r) => names[d] = arg_names[text(r)]
            /\ (\A r \in Registered : ~same_letters(raw[d], r)) =>
                   /\ names[d] = <<Name("key"), Name("value")>>
                   /\ (Len(args[d]) = 2 /\ call_over(d)) =>
                          /\ error[d] = ""
                          /\ writes(d) = <<set_event(<<"key">>, args[d][1]),
                                           set_event(<<"value">>, args[d][2])>>

\* A lower-case spelling of an unregistered name was called with two arguments.
C6_Witness ==
    \E d \in Drivers :
        /\ raw[d] = <<"g", "e", "t">> /\ Len(args[d]) = 2 /\ pc[d] = "decode"
        /\ writes(d) = <<set_event(<<"key">>, args[d][1]),
                         set_event(<<"value">>, args[d][2])>>

\* The routine of d's call was invoked.
invoked_call(d) == cips_of(events[d]) # <<>>

\* C7: two drivers share the namespace and the call interface. When their
\* command() calls run one after the other, each routine invocation finds at
\* every subscript its call wrote the argument that call passed.
C7_SerialCallsFindOwnArguments ==
    \A d \in Drivers :
        (invoked_call(d) /\ ~overlapped[d]) =>
            \A k \in 1..Len(writes(d)) : seen[d][k] = writes(d)[k].value

\* C7, interleaved: a routine invocation found another call's argument at a
\* subscript its own call wrote.
C7_Witness ==
    \E d \in Drivers, e \in Drivers :
        /\ d # e /\ invoked_call(d) /\ overlapped[d]
        /\ \E k \in 1..Len(writes(d)), j \in 1..Len(args[e]) :
               /\ seen[d][k] # writes(d)[k].value
               /\ seen[d][k] = args[e][j]

routines(d) == [k \in 1..Len(invoked[d]) |-> invoked[d][k].routine]

\* C8: the routines a driver used as a context manager invokes are init, then
\* per-command calls, then exactly one terminate when the block is left, by a
\* normal return or by a command that raised.
C8_InitCallsTerminate ==
    \A d \in Drivers :
        /\ (pc[d] = "new") <=> (routines(d) = <<>>)
        /\ (pc[d] # "new") => routines(d)[1] = "init"
        /\ (pc[d] \notin {"new", "exited"}) =>
               \A k \in 2..Len(routines(d)) : routines(d)[k] = "call"
        /\ (pc[d] = "exited") =>
               /\ Len(routines(d)) >= 2
               /\ routines(d)[Len(routines(d))] = "terminate"
               /\ \A k \in 2..(Len(routines(d)) - 1) : routines(d)[k] = "call"

\* The block was left by the IndexError of a command and terminate was invoked.
C8_Witness ==
    \E d \in Drivers :
        /\ pc[d] = "exited" /\ error[d] = "IndexError"
        /\ routines(d)[Len(routines(d))] = "terminate"

\* C9: whatever table was active before the attribute access, the routine
\* M.ROUTINE(...) is invoked with the table opened from xider.ci active.
C9_RoutineRunsUnderOwnTable ==
    \A d \in Drivers :
        \A k \in 1..Len(invoked[d]) : invoked[d][k].table = xider_ci

\* C10: the subscripts written within one call are pairwise distinct.
C10_SubscriptsDistinct ==
    \A d \in Drivers :
        \A k \in 1..Len(writes(d)), l \in 1..Len(writes(d)) :
            k # l => writes(d)[k].subscripts # writes(d)[l].subscripts

\* A SET call with extra parameters has written all its arguments.
C10_Witness ==
    \E d \in Drivers :
        /\ cmd[d] = "SET" /\ pc[d] = "decode" /\ Len(writes(d)) >= 4
        /\ writes(d)[4].subscripts = <<"params2">>

====
